---- MODULE Spec2Model ----
(***************************************************************************)
(* Model of yagptmanager: the IAM token manager (auth/manager.py), the     *)
(* conversation context manager (context/manager.py) and the polling of an *)
(* asynchronous completion (gpt/manager.py).                               *)
(***************************************************************************)
EXTENDS Integers, Sequences, FiniteSets, TLC

(* ------------------------------ bounds -------------------------------- *)
\* number of asyncio tasks that call AuthManager.get_token
NumTasks == 2
\* total number of get_token calls issued in a behaviour
MaxCalls == 3
\* number of clock advances in a behaviour
MaxTicks == 2

\* longest context found in the cache at the start
MaxPrior == 2
\* total number of update_context calls issued in a behaviour
MaxUpdates == 3

\* largest async_timeout configured, in seconds
MaxTimeout == 3

\* total number of get_answer calls issued in a behaviour
MaxAnswers == 2

(* ------------------------- program constants -------------------------- *)
\* "+ expires_in - 600": the token is renewed 10 minutes early
REFRESH_MARGIN == 600
\* data.get("expiresIn", 43200)
DEFAULT_EXPIRES_IN == 43200
\* ContextManager.__init__: max_context_messages: int = 5
DEFAULT_MAX_CONTEXT_MESSAGES == 5
\* ContextManager.__init__: max_tokens: int = 7500
DEFAULT_MAX_TOKENS == 7500
\* YaGptManager.__init__: async_timeout: int = 60
DEFAULT_ASYNC_TIMEOUT == 60
\* _get_async_result: await asyncio.sleep(1)
POLL_INTERVAL == 1

(* ------------------------------ helpers ------------------------------- *)
\* Optional[...] values: None is the empty tuple, a value v is <<v>>
None == <<>>
Some(v) == <<v>>

Tasks == 1 .. NumTasks

\* the clock (time.time()) advances in steps of half the refresh margin, so
\* that instants before, at and after a renewal threshold all occur
TimeStep == REFRESH_MARGIN \div 2

\* "expiresIn" of a 200 response: absent, or a positive number of seconds
\* below, at and above the refresh margin
ExpiresInReports == {None, Some(TimeStep), Some(REFRESH_MARGIN + TimeStep)}

VARIABLES
    token,          \* AuthManager._token: None or Some(token id)
    token_expiry,   \* AuthManager._token_expiry: None or Some(instant)
    lock_locked,    \* AuthManager._lock is held
    lock_waiters,   \* AuthManager._lock: FIFO queue of tasks waiting for it
    now,            \* time.time()
    pc,             \* per task: "idle", "waiting" (for the lock), "fetching" (POST in flight)
    waitedOn,       \* per task in a call: the number of the refresh in flight when it called (0: none)
    preTok,         \* per task in a call: the token cached when it called
    service_account_key,    \* AuthManager._service_account_key: per field, None (absent) or Some(value)
    am,             \* AuthManager: how construction went, _service_account_id and _private_key
    \* observations of the calls (history, not program state)
    calls,          \* number of get_token calls issued
    invocations,    \* number of POSTs sent to the token endpoint
    responses,      \* the endpoint's answers, in order of arrival, with the instant and the expiresIn reported
    last,           \* the latest call to end: None or Some([task, kind, tok, at, waited, pre])
    member,         \* per task: its part in the current batch of concurrent calls
    batchInv,       \* POSTs sent by the calls of the current batch
    batchFirst      \* the answer to the first POST of the current batch

VARIABLES
    max_context_messages,   \* ContextManager.max_context_messages
    max_tokens,             \* ContextManager.max_tokens
    cache,          \* the Redis cache: per key, None or Some(text)
    uc,             \* per task: its update_context call
    \* observations of the updates (history, not program state)
    updates,        \* number of update_context calls issued
    written,        \* per session: number of update_context calls that wrote their list
    newest,         \* per session: the entries written, newest first, as far as max_context_messages
    fromEmpty,      \* the session held no context at the start
    budgetEvicted,  \* some update removed an entry in its token-budget loop
    overlapped,     \* some update was issued while another was in progress
    returned,       \* per session: None or Some(the list the latest update_context returned)
    lastGot,        \* the latest get_context call to return: None or Some([session, value])
    alone,          \* per session: the cached value had the calls on other sessions not run
    aloneList,      \* per task: the list of its update_context had the calls on other sessions not run
    expired,        \* per session: its key expired after the latest update_context wrote it
    cacheFailed,    \* the cache operations that failed: their number, and the latest one's kind and task
    updateError     \* the exception of the latest update_context call to end: None or Some([task, session, kind, stage])

ctxVars == <<max_context_messages, max_tokens, cache, uc>>
ctxObs == <<updates, written, newest, fromEmpty, budgetEvicted, overlapped,
           returned, lastGot, alone, aloneList, expired, cacheFailed,
           updateError>>

keyVars == <<service_account_key, am>>
authVars == <<token, token_expiry, lock_locked, lock_waiters, now, pc, waitedOn, preTok,
             keyVars>>
authObs == <<calls, invocations, responses, last, member, batchInv, batchFirst>>
VARIABLES
    async_timeout,  \* YaGptManager._async_timeout, in seconds
    loop_time,      \* the event loop's clock, in seconds
    ar,             \* the _get_async_result call: its position, operation id, deadline and wake-up time
    \* observations of the call (history, not program state)
    polls,          \* number of status GETs answered
    doneReported,   \* a status GET was answered with done: true
    pollFailed,     \* a status GET was answered with a status other than 200, or failed to connect
    outcome         \* how the call ended: None or Some([kind, carried])

pollVars == <<async_timeout, loop_time, ar, polls, doneReported, pollFailed, outcome>>

VARIABLES
    async_mode,     \* YaGptManager._async_mode
    ga,             \* the get_answer call: its position, session, text, token count and request URL
    \* observations of the calls (history, not program state)
    answers,        \* number of get_answer calls issued
    steps,          \* the steps the current get_answer call has completed, in order
    result          \* how the latest get_answer call ended: None or Some([kind, ...])

orchVars == <<async_mode, ga, answers, steps, result>>

vars == <<authVars, authObs, ctxVars, ctxObs, pollVars, orchVars>>

(* ------------------------- AuthManager (pure) ------------------------- *)
\* faulty variant: refreshes whatever is cached
NeedsRefreshAlways(tok, exp, t) == TRUE

\* faulty variant: ">" for ">="
NeedsRefreshStrict(tok, exp, t) == tok = None \/ exp = None \/ t > exp[1]

\* get_token: "not self._token or not self._token_expiry or current_time >= self._token_expiry"
NeedsRefresh(tok, exp, t) == tok = None \/ exp = None \/ t >= exp[1]

\* faulty variant: the margin added instead of subtracted
TokenExpiryLate(t, expires_in) == t + expires_in + REFRESH_MARGIN

\* _fetch_token: "time.time() + expires_in - 600"
TokenExpiry(t, expires_in) == t + expires_in - REFRESH_MARGIN

\* faulty variant: one hour when the response omits expiresIn
ExpiresInDefaultHour(report) == IF report = None THEN 3600 ELSE report[1]

\* _fetch_token: data.get("expiresIn", 43200)
ExpiresIn(report) == IF report = None THEN DEFAULT_EXPIRES_IN ELSE report[1]

\* faulty variant: the token read before waiting for the lock
ReturnedTokenStale(tok, before) == before

\* get_token: "return self._token", read under the lock after the check or the
\* refresh (before: the token that was cached when the call was issued)
ReturnedToken(tok, before) == tok

\* faulty variant: the lock taken without looking at its holder
LockFreeIgnoringHolder(locked, waiters) == waiters = <<>>

\* asyncio.Lock.acquire without suspension: the lock is free and nobody queues for it
LockFree(locked, waiters) == ~locked /\ waiters = <<>>

\* asyncio.Lock: a released lock is handed to the head of the queue
LockHandedTo(locked, waiters, p) == ~locked /\ waiters # <<>> /\ Head(waiters) = p

\* _validate_and_load_key line 36: required_fields
RequiredFields == {"id", "service_account_id", "created_at", "key_algorithm",
                   "public_key", "private_key"}

\* line 44: the accepted key algorithms
AcceptedAlgorithms == {"RSA_2048", "RSA_4096"}

\* str.encode("utf-8"), line 50: the bytes of a text
Encode(text) == <<"utf-8", text>>

\* serialization.load_pem_private_key(data, password=None), line 69: the key,
\* or the exception raised: ValueError for bytes that are not PEM, TypeError
\* for an encrypted key read without its password
LoadPemPrivateKey(data) ==
    IF data = Encode("PEM") THEN [raised |-> None, key |-> Some("RSA key")]
    ELSE IF data = Encode("encrypted PEM") THEN [raised |-> Some("TypeError"), key |-> None]
    ELSE [raised |-> Some("ValueError"), key |-> None]

\* AuthManager.__init__ lines 25-30: the fields before the key is validated
NotLoaded == [state |-> "new", service_account_id |-> None, private_key |-> None]

\* _validate_and_load_key, lines 33-51: YaGptException when a required field
\* is missing or the algorithm is not an accepted one; otherwise the account
\* id is kept and the private key text is encoded to bytes, not decoded
ValidateAndLoadKey(key) ==
    IF \/ \E field \in RequiredFields : key[field] = None
       \/ key["key_algorithm"][1] \notin AcceptedAlgorithms
    THEN [NotLoaded EXCEPT !.state = "raised"]
    ELSE [state |-> "constructed",
          service_account_id |-> key["service_account_id"],
          private_key |-> Some(Encode(key["private_key"][1]))]

\* faulty variant: the assertion is signed whatever the key holds
CreateJwtRaisesNever(m) == None

\* _create_jwt, lines 55-76: None when the assertion is signed, else the
\* exception raised: YaGptException for an empty account id or key (lines
\* 55-57) and for the decoder's ValueError (lines 74-76); another exception
\* of the decoder leaves as it is
CreateJwtRaises(m) ==
    IF m.service_account_id[1] = "" \/ m.private_key[1] = Encode("")
    THEN Some("YaGptException")
    ELSE LET loaded == LoadPemPrivateKey(m.private_key[1]) IN
         IF loaded.raised = None THEN None
         ELSE IF loaded.raised = Some("ValueError") THEN Some("YaGptException")
         ELSE loaded.raised

\* a descriptor with every field and the PEM of an RSA key
WellFormedKey ==
    [field \in RequiredFields |->
        IF field = "key_algorithm" THEN Some("RSA_2048")
        ELSE IF field = "private_key" THEN Some("PEM")
        ELSE Some(field)]

(* ------------------------------ Init ---------------------------------- *)
\* AuthManager.__init__ lines 26-28: no token, no expiry, a free lock
AuthManagerFields ==
    /\ token = None
    /\ token_expiry = None
    /\ lock_locked = FALSE
    /\ lock_waiters = <<>>
    /\ now = 0
    /\ pc = [p \in Tasks |-> "idle"]
    /\ waitedOn = [p \in Tasks |-> 0]
    /\ preTok = [p \in Tasks |-> None]
    /\ calls = 0
    /\ invocations = 0
    /\ responses = <<>>
    /\ last = None
    /\ member = [p \in Tasks |-> "no"]
    /\ batchInv = 0
    /\ batchFirst = None

\* a manager constructed from a well-formed descriptor
InitAuth ==
    /\ AuthManagerFields
    /\ service_account_key = WellFormedKey
    /\ am = ValidateAndLoadKey(WellFormedKey)

(* ------------------------- ContextManager (pure) ---------------------- *)
\* types.Role
Roles == {"system", "assistant", "user"}

CtxTasks == {1, 2}
Sessions == {"s1"}
\* token costs of a message, and the budgets they are measured against
Costs == {0, 1, 2}
\* configurations: max_context_messages and max_tokens are not validated
MessageLimits == 0 .. MaxPrior + 1
Budgets == {1, 2, 3}

\* faulty variant: one key for every session
ContextKeyShared(session_id) == <<"context", "s1">>

\* get_context line 32, update_context line 74: f"context:{session_id}"
ContextKey(session_id) == <<"context", session_id>>
Keys(sessions) == {ContextKey(s) : s \in sessions}

\* a context entry as update_context builds it: a dict with role, text, tokens
Entry(role, text, tokens) == [role |-> role, text |-> text, tokens |-> tokens]

\* faulty variant: the last entry is not serialized
DumpsWithoutLast(list) ==
    [valid |-> TRUE,
     items |-> [i \in 1 .. Len(list) - 1 |->
                   <<list[i].role, list[i].text, list[i].tokens>>]]

\* json.dumps of a list of entries: the cached text, here the list of the
\* entries' values in the order role, text, tokens
Dumps(list) ==
    [valid |-> TRUE,
     items |-> [i \in 1 .. Len(list) |-> <<list[i].role, list[i].text, list[i].tokens>>]]

\* a cached text that json.loads rejects
Garbage == [valid |-> FALSE, items |-> <<>>]

\* faulty variant: an empty list, not None, for a text that is not JSON
LoadsEmptyOnError(blob) ==
    Some([i \in 1 .. Len(blob.items) |->
             Entry(blob.items[i][1], blob.items[i][2], blob.items[i][3])])

\* get_context, lines 34-42: json.loads of the cached text; JSONDecodeError gives None
Loads(blob) ==
    IF blob.valid
    THEN Some([i \in 1 .. Len(blob.items) |->
                  Entry(blob.items[i][1], blob.items[i][2], blob.items[i][3])])
    ELSE None

\* get_context: None for a missing key, else the deserialized list or None
GetContext(value) == IF value = None THEN None ELSE Loads(value[1])

\* update_context line 56: deque(await self.get_context(session_id) or [])
ContextOrEmpty(got) == IF got = None THEN <<>> ELSE got[1]

\* faulty variant: ">" for ">="
RECURSIVE CountTrimLoose(_, _)
CountTrimLoose(context, limit) ==
    IF Len(context) > limit
    THEN IF context = <<>>
         THEN [raised |-> TRUE, context |-> <<>>]
         ELSE CountTrimLoose(Tail(context), limit)
    ELSE [raised |-> FALSE, context |-> context]

\* faulty variant: pop() for popleft()
RECURSIVE CountTrimNewest(_, _)
CountTrimNewest(context, limit) ==
    IF Len(context) >= limit
    THEN IF context = <<>>
         THEN [raised |-> TRUE, context |-> <<>>]
         ELSE CountTrimNewest(SubSeq(context, 1, Len(context) - 1), limit)
    ELSE [raised |-> FALSE, context |-> context]

RECURSIVE CountTrim(_, _)
\* update_context lines 59-60: "while len(context) >= self.max_context_messages:
\* context.popleft()"; popleft on an empty deque raises IndexError
CountTrim(context, limit) ==
    IF Len(context) >= limit
    THEN IF context = <<>>
         THEN [raised |-> TRUE, context |-> <<>>]
         ELSE CountTrim(Tail(context), limit)
    ELSE [raised |-> FALSE, context |-> context]

RECURSIVE SumTokens(_)
\* sum(msg["tokens"] for msg in context)
SumTokens(context) ==
    IF context = <<>> THEN 0 ELSE Head(context).tokens + SumTokens(Tail(context))

\* faulty variant: ">" for ">="
RECURSIVE BudgetTrimLoose(_, _, _)
BudgetTrimLoose(context, total_tokens, budget) ==
    IF total_tokens > budget /\ context # <<>>
    THEN BudgetTrimLoose(Tail(context), total_tokens - Head(context).tokens, budget)
    ELSE context

\* faulty variant: "if" for "while"
RECURSIVE BudgetTrimOnce(_, _, _)
BudgetTrimOnce(context, total_tokens, budget) ==
    IF total_tokens >= budget /\ context # <<>>
    THEN Tail(context)
    ELSE context

\* faulty variant: pop() for popleft()
RECURSIVE BudgetTrimNewest(_, _, _)
BudgetTrimNewest(context, total_tokens, budget) ==
    IF total_tokens >= budget /\ context # <<>>
    THEN BudgetTrimNewest(SubSeq(context, 1, Len(context) - 1),
                          total_tokens - context[Len(context)].tokens, budget)
    ELSE context

RECURSIVE BudgetTrim(_, _, _)
\* update_context lines 66-68: "while total_tokens >= self.max_tokens and
\* context: removed = context.popleft(); total_tokens -= removed['tokens']"
BudgetTrim(context, total_tokens, budget) ==
    IF total_tokens >= budget /\ context # <<>>
    THEN BudgetTrim(Tail(context), total_tokens - Head(context).tokens, budget)
    ELSE context

\* update_context lines 56-72 on the list read from the cache: the count
\* loop, the budget loop, then the new entry appended
UpdatedContext(got, new, limit, budget) ==
    LET counted == CountTrim(ContextOrEmpty(got), limit)
        kept == BudgetTrim(counted.context,
                           SumTokens(counted.context) + new.tokens, budget)
    IN [raised |-> counted.raised,
        counted |-> counted.context,
        kept |-> kept,
        list |-> IF counted.raised THEN <<>> ELSE Append(kept, new)]

(* ------------------ YaGptManager._get_async_result (pure) ------------- *)
\* operation ids given by the completion endpoint in asynchronous mode
OperationIds == {"op1", "op2"}

\* how a call of _make_request in asynchronous mode can end
OutcomeKinds == {"response", "InvalidResponse", "YaGptException", "RequestTimeoutException"}

\* faulty variant: no timeout around the loop
DeadlineNever(t, deadline) == FALSE

\* asyncio.timeout: the task is cancelled once the loop's clock has reached
\* the deadline
DeadlinePassed(t, deadline) == t >= deadline

\* asyncio.timeout(self._async_timeout): the deadline of a block entered at t
Deadline(t, timeout) == t + timeout

\* _get_async_result line 166-168: the message of RequestTimeoutException
\* holds the operation id
TimeoutMessage(operation_id) == <<"operation_id", operation_id>>

NoResult == [pc |-> "idle", operation_id |-> "", deadline |-> 0, wake |-> 0]

PollObsInit ==
    /\ loop_time = 0
    /\ ar = NoResult
    /\ polls = 0
    /\ doneReported = FALSE
    /\ pollFailed = FALSE
    /\ outcome = None

\* the orchestrator as constructed by default, no request made
PollAtRest ==
    /\ async_timeout = DEFAULT_ASYNC_TIMEOUT
    /\ PollObsInit

\* the orchestrator constructed with any timeout, no request made
YaGptManagerInit ==
    /\ async_timeout \in 0 .. MaxTimeout
    /\ PollObsInit

(* ------------------------------ Init ---------------------------------- *)
\* the i-th entry of a context found in the cache at the start
PriorEntry(i, tokens) ==
    Entry(IF i = 1 THEN "system" ELSE IF i % 2 = 0 THEN "user" ELSE "assistant",
          0 - i, tokens)

PriorContexts ==
    UNION {{[i \in 1 .. n |-> PriorEntry(i, c[i])] : c \in [1 .. n -> Costs]}
           : n \in 0 .. MaxPrior}

IdleUpdate == [pc |-> "idle", session |-> "s1", new |-> Entry("user", 0, 0),
               list |-> <<>>, before |-> None]

\* no call issued yet on the given sessions
CtxObsInitFor(sessions) ==
    /\ uc = [t \in CtxTasks |-> IdleUpdate]
    /\ updates = 0
    /\ written = [s \in sessions |-> 0]
    /\ newest = [s \in sessions |-> <<>>]
    /\ budgetEvicted = FALSE
    /\ overlapped = FALSE
    /\ returned = [s \in sessions |-> None]
    /\ lastGot = None
    /\ alone = [s \in sessions |-> cache[ContextKey(s)]]
    /\ aloneList = [t \in CtxTasks |-> <<>>]
    /\ expired = [s \in sessions |-> FALSE]
    /\ cacheFailed = [n |-> 0, op |-> "", task |-> 0]
    /\ updateError = None

CtxObsInit == CtxObsInitFor(Sessions)

\* any configuration; the cache holds no context, a list of entries or a
\* text that is not JSON
ContextManagerInit ==
    /\ max_context_messages \in MessageLimits
    /\ max_tokens \in Budgets
    /\ cache \in [Keys(Sessions) -> {None, Some(Garbage)}
                                   \cup {Some(Dumps(c)) : c \in PriorContexts}]
    /\ fromEmpty = \A k \in Keys(Sessions) : cache[k] \in {None, Some(Dumps(<<>>))}
    /\ CtxObsInit

\* the context manager as constructed by default, with an empty cache
CtxAtRest ==
    /\ max_context_messages = DEFAULT_MAX_CONTEXT_MESSAGES
    /\ max_tokens = DEFAULT_MAX_TOKENS
    /\ cache = [k \in Keys(Sessions) |-> None]
    /\ fromEmpty = TRUE
    /\ CtxObsInit

\* the orchestrator as constructed by default (async_mode False), no
\* get_answer call issued
NoAnswer == [pc |-> "idle", session |-> "s1", text |-> 0, tokens |-> 0, mark |-> 0,
             wrote |-> 0, url |-> None, stored |-> None]

GetAnswerObsInit ==
    /\ ga = NoAnswer
    /\ answers = 0
    /\ steps = <<>>
    /\ result = None

GetAnswerAtRest ==
    /\ async_mode = FALSE
    /\ GetAnswerObsInit

Init == InitAuth /\ CtxAtRest /\ PollAtRest /\ GetAnswerAtRest

\* two sessions served by one context manager and one cache
AllSessions == {"s1", "s2"}

\* what a session's key holds at the start: nothing, a text that is not
\* JSON, or a context of one entry
StartValues == {None, Some(Garbage), Some(Dumps(<<PriorEntry(1, 1)>>))}

\* with two sessions: every message costs one token, the context holds one
\* or two messages and the budget is reached by two or by three messages
UnitCosts == {1}
SmallLimits == {1, 2}
SmallBudgets == {2, 3}

\* a small configuration; each of the two keys holds any of the start values
TwoSessionsInit ==
    /\ max_context_messages \in SmallLimits
    /\ max_tokens \in SmallBudgets
    /\ cache \in [Keys(AllSessions) -> StartValues]
    /\ fromEmpty = \A k \in Keys(AllSessions) : cache[k] = None
    /\ CtxObsInitFor(AllSessions)

InitSess == InitAuth /\ TwoSessionsInit /\ PollAtRest /\ GetAnswerAtRest

\* token and context managers at rest, the orchestrator with any timeout
InitPoll == InitAuth /\ CtxAtRest /\ YaGptManagerInit /\ GetAnswerAtRest

\* the token manager as constructed, the context manager in any configuration
InitCtx == InitAuth /\ ContextManagerInit /\ PollAtRest /\ GetAnswerAtRest

(* --------------------------- AuthManager ------------------------------ *)
InProgress(p) == pc[p] # "idle"
AllIdle == \A q \in Tasks : ~InProgress(q)
RefreshInFlight == \E q \in Tasks : pc[q] = "fetching"

\* the part a call issued now by p takes in the batch of concurrent calls
\* issued while no valid token is cached: a batch starts with a call issued
\* while no call is in progress, and is joined by the calls issued before any
\* of its calls has ended
MemberOnCall(p) ==
    LET stale == NeedsRefresh(token, token_expiry, now) IN
    IF AllIdle
    THEN [q \in Tasks |-> IF q = p /\ stale THEN "active" ELSE "no"]
    ELSE IF /\ stale
            /\ \E q \in Tasks : member[q] = "active"
            /\ \A q \in Tasks : member[q] # "done"
         THEN [member EXCEPT ![p] = "active"]
         ELSE [member EXCEPT ![p] = IF @ = "done" THEN "done" ELSE "no"]

\* the record of a call of p that ends now
Ended(p, kind, tok, waited, pre) ==
    Some([task |-> p, kind |-> kind, tok |-> tok, at |-> now,
          waited |-> waited, pre |-> pre])

\* get_token, lines 107-112, run by p holding the lock, up to its first
\* suspension: either the cached token is returned and the lock released, or
\* _fetch_token signs the assertion (line 80) and sends the POST, p suspending
\* with the lock held; when _create_jwt raises, the exception leaves
\* get_token, no POST is sent and the lock is released.
\* m is the batch membership to be stored; fresh tells a new batch starts;
\* waited and pre are what p saw when it issued the call.
UnderLock(p, m, fresh, waited, pre) ==
    IF NeedsRefresh(token, token_expiry, now) /\ CreateJwtRaises(am) # None
    THEN /\ pc' = [pc EXCEPT ![p] = "idle"]
         /\ lock_locked' = FALSE
         /\ last' = Ended(p, "raised", None, waited, pre)
         /\ member' = [m EXCEPT ![p] = IF @ = "active" THEN "done" ELSE @]
         /\ batchInv' = (IF fresh THEN 0 ELSE batchInv)
         /\ waitedOn' = [waitedOn EXCEPT ![p] = 0]
         /\ preTok' = [preTok EXCEPT ![p] = None]
         /\ UNCHANGED invocations
    ELSE IF NeedsRefresh(token, token_expiry, now)
    THEN /\ pc' = [pc EXCEPT ![p] = "fetching"]
         /\ lock_locked' = TRUE
         /\ invocations' = invocations + 1
         /\ batchInv' = (IF fresh THEN 0 ELSE batchInv)
                        + (IF m[p] = "active" THEN 1 ELSE 0)
         /\ member' = m
         /\ waitedOn' = [waitedOn EXCEPT ![p] = waited]
         /\ preTok' = [preTok EXCEPT ![p] = pre]
         /\ UNCHANGED last
    ELSE /\ pc' = [pc EXCEPT ![p] = "idle"]
         /\ lock_locked' = FALSE
         /\ last' = Ended(p, "returned", ReturnedToken(token, pre), waited, pre)
         /\ member' = [m EXCEPT ![p] = IF @ = "active" THEN "done" ELSE @]
         /\ batchInv' = (IF fresh THEN 0 ELSE batchInv)
         /\ waitedOn' = [waitedOn EXCEPT ![p] = 0]
         /\ preTok' = [preTok EXCEPT ![p] = None]
         /\ UNCHANGED invocations

\* a task calls get_token: "async with self._lock" either takes the free lock
\* and runs on, or queues the task
GetTokenCall(p) ==
    /\ am.state = "constructed"
    /\ pc[p] = "idle"
    /\ calls < MaxCalls
    /\ calls' = calls + 1
    /\ batchFirst' = IF AllIdle THEN None ELSE batchFirst
    /\ LET waited == IF RefreshInFlight THEN Len(responses) + 1 ELSE 0 IN
       IF LockFree(lock_locked, lock_waiters)
       THEN /\ UnderLock(p, MemberOnCall(p), AllIdle, waited, token)
            /\ UNCHANGED lock_waiters
       ELSE /\ pc' = [pc EXCEPT ![p] = "waiting"]
            /\ lock_waiters' = Append(lock_waiters, p)
            /\ member' = MemberOnCall(p)
            /\ waitedOn' = [waitedOn EXCEPT ![p] = waited]
            /\ preTok' = [preTok EXCEPT ![p] = token]
            /\ UNCHANGED <<lock_locked, invocations, batchInv, last>>
    /\ UNCHANGED <<token, token_expiry, now, responses, keyVars, ctxVars, ctxObs, pollVars, orchVars>>

\* a queued task is handed the released lock and runs lines 107-112
GetTokenWake(p) ==
    /\ pc[p] = "waiting"
    /\ LockHandedTo(lock_locked, lock_waiters, p)
    /\ lock_waiters' = Tail(lock_waiters)
    /\ UnderLock(p, member, FALSE, waitedOn[p], preTok[p])
    /\ UNCHANGED <<token, token_expiry, now, calls, responses, batchFirst,
                   keyVars, ctxVars, ctxObs, pollVars, orchVars>>

\* what the end of p's refresh means for the batch
BatchFirstOnAnswer(p, answer) ==
    IF member[p] = "active" /\ batchFirst = None THEN Some(answer) ELSE batchFirst

\* the end of p's call, for the task's own variables and the batch
CallEnds(p) ==
    /\ pc' = [pc EXCEPT ![p] = "idle"]
    /\ lock_locked' = FALSE
    /\ waitedOn' = [waitedOn EXCEPT ![p] = 0]
    /\ preTok' = [preTok EXCEPT ![p] = None]
    /\ member' = [member EXCEPT ![p] = IF @ = "active" THEN "done" ELSE @]

\* faulty variant: the token is stored and the expiry is left as it was
FetchTokenOkKeepingExpiry(p, report) ==
    /\ pc[p] = "fetching"
    /\ LET id == Len(responses) + 1
           expires_in == ExpiresIn(report)
           answer == [ok |-> TRUE, at |-> now, report |-> report,
                      expires_in |-> expires_in,
                      expiry |-> TokenExpiry(now, expires_in)]
       IN /\ token' = Some(id)
          /\ responses' = Append(responses, answer)
          /\ last' = Ended(p, "returned", Some(id), waitedOn[p], preTok[p])
          /\ batchFirst' = IF member[p] = "active" /\ batchFirst = None
                           THEN Some(answer) ELSE batchFirst
    /\ pc' = [pc EXCEPT ![p] = "idle"]
    /\ lock_locked' = FALSE
    /\ waitedOn' = [waitedOn EXCEPT ![p] = 0]
    /\ preTok' = [preTok EXCEPT ![p] = None]
    /\ member' = [member EXCEPT ![p] = IF @ = "active" THEN "done" ELSE @]
    /\ UNCHANGED <<token_expiry, lock_waiters, now, calls, invocations, batchInv,
                   keyVars, ctxVars, ctxObs, pollVars, orchVars>>

\* _fetch_token, lines 92-97, then get_token line 112: the endpoint answers 200;
\* token and expiry are stored, the token is returned and the lock released
FetchTokenOk(p, report) ==
    /\ pc[p] = "fetching"
    /\ LET id == Len(responses) + 1
           expires_in == ExpiresIn(report)
           answer == [ok |-> TRUE, at |-> now, report |-> report,
                      expires_in |-> expires_in,
                      expiry |-> TokenExpiry(now, expires_in)]
       IN /\ token' = Some(id)
          /\ token_expiry' = Some(TokenExpiry(now, expires_in))
          /\ responses' = Append(responses, answer)
          /\ last' = Ended(p, "returned", ReturnedToken(Some(id), preTok[p]),
                           waitedOn[p], preTok[p])
          /\ batchFirst' = BatchFirstOnAnswer(p, answer)
    /\ CallEnds(p)
    /\ UNCHANGED <<lock_waiters, now, calls, invocations, batchInv, keyVars, ctxVars, ctxObs, pollVars, orchVars>>

\* faulty variant: the POST is sent again after a failure
FetchTokenFailRetrying(p) ==
    /\ pc[p] = "fetching"
    /\ responses' = Append(responses, [ok |-> FALSE, at |-> now, report |-> None,
                                       expires_in |-> 0, expiry |-> 0])
    /\ invocations' = invocations + 1
    /\ UNCHANGED <<token, token_expiry, lock_locked, lock_waiters, now, pc, waitedOn,
                   preTok, calls, last, member, batchInv, batchFirst,
                   keyVars, ctxVars, ctxObs, pollVars, orchVars>>

\* faulty variant: the lock is not released when the refresh fails
FetchTokenFailHoldingLock(p) ==
    /\ pc[p] = "fetching"
    /\ LET answer == [ok |-> FALSE, at |-> now, report |-> None,
                         expires_in |-> 0, expiry |-> 0]
       IN /\ responses' = Append(responses, answer)
          /\ batchFirst' = IF member[p] = "active" /\ batchFirst = None
                           THEN Some(answer) ELSE batchFirst
    /\ last' = Ended(p, "raised", None, waitedOn[p], preTok[p])
    /\ pc' = [pc EXCEPT ![p] = "idle"]
    /\ waitedOn' = [waitedOn EXCEPT ![p] = 0]
    /\ preTok' = [preTok EXCEPT ![p] = None]
    /\ member' = [member EXCEPT ![p] = IF @ = "active" THEN "done" ELSE @]
    /\ UNCHANGED <<token, token_expiry, lock_locked, lock_waiters, now, calls,
                   invocations, batchInv, keyVars, ctxVars, ctxObs, pollVars, orchVars>>

\* _fetch_token, lines 87-90 and 99-101: a status other than 200 or a
\* connection error; YaGptException leaves get_token, releasing the lock
FetchTokenFail(p) ==
    /\ pc[p] = "fetching"
    /\ LET answer == [ok |-> FALSE, at |-> now, report |-> None,
                         expires_in |-> 0, expiry |-> 0]
       IN /\ responses' = Append(responses, answer)
          /\ batchFirst' = BatchFirstOnAnswer(p, answer)
    /\ last' = Ended(p, "raised", None, waitedOn[p], preTok[p])
    /\ CallEnds(p)
    /\ UNCHANGED <<token, token_expiry, lock_waiters, now, calls, invocations, batchInv,
                   keyVars, ctxVars, ctxObs, pollVars, orchVars>>

\* time passes
Tick ==
    /\ now < MaxTicks * TimeStep
    /\ now' = now + TimeStep
    /\ UNCHANGED <<token, token_expiry, lock_locked, lock_waiters, pc, waitedOn,
                   preTok, authObs, keyVars, ctxVars, ctxObs, pollVars, orchVars>>

NextAuth ==
    \/ \E p \in Tasks : GetTokenCall(p)
    \/ \E p \in Tasks : GetTokenWake(p)
    \/ \E p \in Tasks : FetchTokenFail(p)
    \/ \E p \in Tasks, report \in ExpiresInReports : FetchTokenOk(p, report)
    \/ Tick

SpecAuth == Init /\ [][NextAuth]_vars

\* texts of the private_key field: empty, not PEM, the PEM of an RSA key,
\* and the PEM of a key encrypted with a password
PrivateKeyTexts == {"", "not PEM", "PEM", "encrypted PEM"}

\* the values a field of the descriptor is given: absent, or a text
FieldValues(field) ==
    {None} \cup
    IF field = "key_algorithm" THEN {Some("RSA_2048"), Some("RSA_4096"), Some("ED25519")}
    ELSE IF field = "private_key" THEN {Some(text) : text \in PrivateKeyTexts}
    ELSE IF field = "service_account_id" THEN {Some(""), Some("sa")}
    ELSE {Some(field)}

\* the descriptors AuthManager is constructed with
ServiceAccountKeys ==
    {key \in [RequiredFields -> UNION {FieldValues(field) : field \in RequiredFields}] :
        \A field \in RequiredFields : key[field] \in FieldValues(field)}

\* AuthManager(service_account_key) is about to be constructed
InitKey ==
    /\ AuthManagerFields
    /\ service_account_key \in ServiceAccountKeys
    /\ am = NotLoaded
    /\ CtxAtRest /\ PollAtRest /\ GetAnswerAtRest

\* AuthManager.__init__ line 31: _validate_and_load_key runs; when it raises
\* there is no manager to call
Construct ==
    /\ am.state = "new"
    /\ am' = ValidateAndLoadKey(service_account_key)
    /\ UNCHANGED <<token, token_expiry, lock_locked, lock_waiters, now, pc, waitedOn,
                   preTok, service_account_key, authObs, ctxVars, ctxObs, pollVars,
                   orchVars>>

\* construction from any descriptor, then the calls of get_token
NextKey ==
    \/ Construct
    \/ \E p \in Tasks : GetTokenCall(p)
    \/ \E p \in Tasks : GetTokenWake(p)
    \/ \E p \in Tasks : FetchTokenFail(p)
    \/ \E p \in Tasks, report \in ExpiresInReports : FetchTokenOk(p, report)
    \/ Tick

SpecKey == InitKey /\ [][NextKey]_vars

\* the event loop resumes the task the released lock is handed to, and every
\* POST to the token endpoint ends, answered or failed
SpecAuthFair ==
    /\ Init
    /\ [][NextAuth]_vars
    /\ WF_vars(\E p \in Tasks : GetTokenWake(p))
    /\ WF_vars(\E p \in Tasks :
                  \/ FetchTokenFail(p)
                  \/ \E report \in ExpiresInReports : FetchTokenOk(p, report))

(* -------------------------- ContextManager ---------------------------- *)
UpdateInProgress == \E t \in CtxTasks : uc[t].pc # "idle"

\* the entry passed to the k-th update: the orchestrator stores the user's
\* prompt, then the assistant's answer
NewEntry(k, tokens) == Entry(IF k % 2 = 1 THEN "user" ELSE "assistant", k, tokens)

\* the record of an update_context call of t that ends now with an
\* exception; at: the number of calls issued till then
UpdateRaised(t, s, kind, stage, at) ==
    Some([task |-> t, session |-> s, kind |-> kind, stage |-> stage, at |-> at])

\* update_context lines 56-72, called with the entry new: the cache
\* answers the GET, both loops run and the new entry is appended; with the
\* count loop raising IndexError the call ends here, otherwise the SET is sent
UpdateContextReadOf(t, s, new) ==
    /\ uc[t].pc = "idle"
    /\ updates < MaxUpdates
    /\ updates' = updates + 1
    /\ overlapped' = (overlapped \/ UpdateInProgress)
    /\ LET r == UpdatedContext(GetContext(cache[ContextKey(s)]), new,
                               max_context_messages, max_tokens)
           a == UpdatedContext(GetContext(alone[s]), new,
                               max_context_messages, max_tokens)
       IN IF r.raised
          THEN /\ updateError' = UpdateRaised(t, s, "IndexError", "loop", updates + 1)
               /\ UNCHANGED <<uc, budgetEvicted, aloneList>>
          ELSE /\ uc' = [uc EXCEPT ![t] = [pc |-> "writing", session |-> s,
                                           new |-> new, list |-> r.list,
                                           before |-> cache[ContextKey(s)]]]
               /\ budgetEvicted' = (budgetEvicted \/ r.kept # r.counted)
               /\ aloneList' = [aloneList EXCEPT ![t] = a.list]
               /\ UNCHANGED updateError
    /\ UNCHANGED <<max_context_messages, max_tokens, cache, written, newest, fromEmpty,
                   returned, lastGot, alone, expired, cacheFailed,
                   authVars, authObs, pollVars, orchVars>>

\* update_context called with the entry of the k-th update
UpdateContextRead(t, s, tokens) == UpdateContextReadOf(t, s, NewEntry(updates + 1, tokens))

\* faulty variant: the list is computed again from the key's value when the
\* SET is served, as one atomic step
UpdateContextWriteMerging(t) ==
    /\ uc[t].pc = "writing"
    /\ LET merged == UpdatedContext(GetContext(cache[ContextKey(uc[t].session)]),
                                    uc[t].new, max_context_messages, max_tokens).list
       IN /\ cache' = [cache EXCEPT ![ContextKey(uc[t].session)] = Some(Dumps(merged))]
          /\ returned' = [returned EXCEPT ![uc[t].session] = Some(merged)]
    /\ alone' = [alone EXCEPT ![uc[t].session] = Some(Dumps(aloneList[t]))]
    /\ aloneList' = [aloneList EXCEPT ![t] = <<>>]
    /\ expired' = [expired EXCEPT ![uc[t].session] = FALSE]
    /\ written' = [written EXCEPT ![uc[t].session] = @ + 1]
    /\ newest' = [newest EXCEPT ![uc[t].session] =
                      SubSeq(<<uc[t].new>> \o @, 1,
                             IF Len(@) + 1 <= max_context_messages
                             THEN Len(@) + 1 ELSE max_context_messages)]
    /\ uc' = [uc EXCEPT ![t] = IdleUpdate]
    /\ updateError' = None
    /\ UNCHANGED <<max_context_messages, max_tokens, updates, fromEmpty, budgetEvicted,
                   overlapped, lastGot, cacheFailed, authVars, authObs, pollVars, orchVars>>

\* update_context lines 74-76: the cache serves the SET of the serialized
\* list with ttl=3600 and the list is returned
UpdateContextWrite(t) ==
    /\ uc[t].pc = "writing"
    /\ cache' = [cache EXCEPT ![ContextKey(uc[t].session)] = Some(Dumps(uc[t].list))]
    /\ returned' = [returned EXCEPT ![uc[t].session] = Some(uc[t].list)]
    /\ alone' = [alone EXCEPT ![uc[t].session] = Some(Dumps(aloneList[t]))]
    /\ aloneList' = [aloneList EXCEPT ![t] = <<>>]
    /\ expired' = [expired EXCEPT ![uc[t].session] = FALSE]
    /\ written' = [written EXCEPT ![uc[t].session] = @ + 1]
    /\ newest' = [newest EXCEPT ![uc[t].session] =
                      SubSeq(<<uc[t].new>> \o @, 1,
                             IF Len(@) + 1 <= max_context_messages
                             THEN Len(@) + 1 ELSE max_context_messages)]
    /\ uc' = [uc EXCEPT ![t] = IdleUpdate]
    /\ updateError' = None
    /\ UNCHANGED <<max_context_messages, max_tokens, updates, fromEmpty, budgetEvicted,
                   overlapped, lastGot, cacheFailed, authVars, authObs, pollVars, orchVars>>

\* faulty variant: after the failed GET the call goes on with an empty context
UpdateContextReadFailsFallingBack(t, s) ==
    /\ uc[t].pc = "idle"
    /\ updates < MaxUpdates
    /\ updates' = updates + 1
    /\ overlapped' = (overlapped \/ UpdateInProgress)
    /\ uc' = [uc EXCEPT ![t] = [pc |-> "writing", session |-> s,
                                 new |-> NewEntry(updates + 1, 1),
                                 list |-> <<NewEntry(updates + 1, 1)>>,
                                 before |-> cache[ContextKey(s)]]]
    /\ aloneList' = [aloneList EXCEPT ![t] = <<NewEntry(updates + 1, 1)>>]
    /\ cacheFailed' = [n |-> cacheFailed.n + 1, op |-> "get", task |-> t]
    /\ UNCHANGED <<max_context_messages, max_tokens, cache, written, newest, fromEmpty,
                   budgetEvicted, returned, lastGot, alone, expired, updateError,
                   authVars, authObs, pollVars, orchVars>>

\* update_context line 56 with CacheManager.get lines 25-27: the GET fails,
\* RedisConnectionError leaves get, get_context and update_context; no SET
\* is sent
UpdateContextReadFails(t, s) ==
    /\ uc[t].pc = "idle"
    /\ updates < MaxUpdates
    /\ updates' = updates + 1
    /\ overlapped' = (overlapped \/ UpdateInProgress)
    /\ cacheFailed' = [n |-> cacheFailed.n + 1, op |-> "get", task |-> t]
    /\ updateError' = UpdateRaised(t, s, "RedisConnectionError", "get", updates + 1)
    /\ UNCHANGED <<ctxVars, written, newest, fromEmpty, budgetEvicted, returned,
                   lastGot, alone, aloneList, expired, authVars, authObs, pollVars, orchVars>>

\* update_context line 74 with CacheManager.set lines 33-35: the SET fails
\* and stores nothing; RedisConnectionError leaves set and update_context
UpdateContextWriteFails(t) ==
    /\ uc[t].pc = "writing"
    /\ uc' = [uc EXCEPT ![t] = IdleUpdate]
    /\ aloneList' = [aloneList EXCEPT ![t] = <<>>]
    /\ cacheFailed' = [n |-> cacheFailed.n + 1, op |-> "set", task |-> t]
    /\ updateError' = UpdateRaised(t, uc[t].session, "RedisConnectionError", "set",
                                   updates)
    /\ UNCHANGED <<max_context_messages, max_tokens, cache, updates, written, newest,
                   fromEmpty, budgetEvicted, overlapped, returned, lastGot, alone,
                   expired, authVars, authObs, pollVars, orchVars>>

\* get_context, lines 32-42: the cache serves the GET and the deserialized
\* list, or None, is returned; nothing is written
GetContextCall(s) ==
    /\ lastGot' = Some([session |-> s,
                        value |-> GetContext(cache[ContextKey(s)]),
                        alone |-> GetContext(alone[s])])
    /\ UNCHANGED <<ctxVars, updates, written, newest, fromEmpty, budgetEvicted,
                   overlapped, returned, alone, aloneList, expired, cacheFailed,
                   updateError, authVars, authObs, pollVars, orchVars>>

\* update_context line 74, "ttl=3600": the cache drops the key of session s
\* once the time to live set with it has run out
KeyExpires(s) ==
    /\ cache[ContextKey(s)] # None
    /\ cache' = [cache EXCEPT ![ContextKey(s)] = None]
    /\ alone' = [alone EXCEPT ![s] = None]
    /\ expired' = [expired EXCEPT ![s] = TRUE]
    /\ UNCHANGED <<max_context_messages, max_tokens, uc, updates, written, newest,
                   fromEmpty, budgetEvicted, overlapped, returned, lastGot, aloneList,
                   cacheFailed, updateError, authVars, authObs, pollVars, orchVars>>

NextCtx ==
    \/ \E t \in CtxTasks, s \in Sessions, tokens \in Costs :
          UpdateContextRead(t, s, tokens)
    \/ \E t \in CtxTasks : UpdateContextWrite(t)

SpecCtx == InitCtx /\ [][NextCtx]_vars

\* calls of update_context on one session by two tasks, with entries of one
\* token, the cache serving or failing each GET and each SET
NextCache ==
    \/ \E t \in CtxTasks, s \in Sessions, tokens \in UnitCosts :
          UpdateContextRead(t, s, tokens)
    \/ \E t \in CtxTasks, s \in Sessions : UpdateContextReadFails(t, s)
    \/ \E t \in CtxTasks : UpdateContextWrite(t)
    \/ \E t \in CtxTasks : UpdateContextWriteFails(t)

SpecCache == InitCtx /\ [][NextCache]_vars

\* calls of update_context and get_context on two sessions, and the expiry
\* of their keys
NextSess ==
    \/ \E t \in CtxTasks, s \in AllSessions, tokens \in UnitCosts :
          UpdateContextRead(t, s, tokens)
    \/ \E t \in CtxTasks : UpdateContextWrite(t)
    \/ \E s \in AllSessions : GetContextCall(s)
    \/ \E s \in AllSessions : KeyExpires(s)

SpecSess == InitSess /\ [][NextSess]_vars

(* ------------------- YaGptManager._get_async_result ------------------- *)
PollInProgress == ar.pc \in {"sleeping", "getting"}

\* a timer of the event loop is due: the end of the sleep or the timeout
TimerDue ==
    \/ ar.pc = "sleeping" /\ loop_time >= ar.wake
    \/ PollInProgress /\ DeadlinePassed(loop_time, ar.deadline)

\* the call ends: with the response, or raising the exception of that kind
PollEnds(kind, carried) ==
    /\ ar' = [ar EXCEPT !.pc = "ended"]
    /\ outcome' = Some([kind |-> kind, carried |-> carried])

\* _make_request lines 127-128 and _get_async_result lines 146-154: the
\* completion endpoint has answered with the operation id; the timeout block
\* is entered and the task sleeps for the first time
GetAsyncResultCall(operation_id) ==
    /\ ar.pc = "idle"
    /\ ar' = [pc |-> "sleeping", operation_id |-> operation_id,
              deadline |-> Deadline(loop_time, async_timeout),
              wake |-> loop_time + POLL_INTERVAL]
    /\ UNCHANGED <<async_timeout, loop_time, polls, doneReported, pollFailed, outcome,
                   authVars, authObs, ctxVars, ctxObs, orchVars>>

\* line 154-155: the sleep is over and the status GET is sent
SleepEnds ==
    /\ ar.pc = "sleeping"
    /\ loop_time >= ar.wake
    /\ ar' = [ar EXCEPT !.pc = "getting"]
    /\ UNCHANGED <<async_timeout, loop_time, polls, doneReported, pollFailed, outcome,
                   authVars, authObs, ctxVars, ctxObs, orchVars>>

\* lines 155-163: the status GET is answered with 200: with done true the
\* response is returned, otherwise the loop goes round and the task sleeps
PollAnswered(done) ==
    /\ ar.pc = "getting"
    /\ polls' = polls + 1
    /\ doneReported' = (doneReported \/ done)
    /\ IF done
       THEN PollEnds("response", None)
       ELSE /\ ar' = [ar EXCEPT !.pc = "sleeping", !.wake = loop_time + POLL_INTERVAL]
            /\ UNCHANGED outcome
    /\ UNCHANGED <<async_timeout, loop_time, pollFailed,
                   authVars, authObs, ctxVars, ctxObs, orchVars>>

\* lines 156-159: the status GET is answered with a status other than 200
\* and InvalidResponse is raised; or it fails with aiohttp.ClientError,
\* which _make_request (lines 135-136) raises again as YaGptException
PollFails(kind) ==
    /\ ar.pc = "getting"
    /\ kind \in {"InvalidResponse", "YaGptException"}
    /\ pollFailed' = TRUE
    /\ PollEnds(kind, None)
    /\ UNCHANGED <<async_timeout, loop_time, polls, doneReported,
                   authVars, authObs, ctxVars, ctxObs, orchVars>>

\* lines 152 and 165-168: the deadline of asyncio.timeout is reached while the
\* task sleeps or waits for the GET; the task is cancelled, TimeoutError leaves
\* the block and RequestTimeoutException is raised with the operation id
TimeoutFires ==
    /\ PollInProgress
    /\ DeadlinePassed(loop_time, ar.deadline)
    /\ PollEnds("RequestTimeoutException", Some(TimeoutMessage(ar.operation_id)))
    /\ UNCHANGED <<async_timeout, loop_time, polls, doneReported, pollFailed,
                   authVars, authObs, ctxVars, ctxObs, orchVars>>

\* a second passes on the loop's clock while the call is in progress and no
\* timer is due
ClockTick ==
    /\ PollInProgress
    /\ ~TimerDue
    /\ loop_time <= MaxTimeout
    /\ loop_time' = loop_time + 1
    /\ UNCHANGED <<async_timeout, ar, polls, doneReported, pollFailed, outcome,
                   authVars, authObs, ctxVars, ctxObs, orchVars>>

NextPoll ==
    \/ \E operation_id \in OperationIds : GetAsyncResultCall(operation_id)
    \/ SleepEnds
    \/ \E done \in BOOLEAN : PollAnswered(done)
    \/ \E kind \in OutcomeKinds : PollFails(kind)
    \/ TimeoutFires
    \/ ClockTick

\* the timers of the event loop fire when due and its clock advances; the
\* status endpoint need not answer
SpecPoll ==
    /\ InitPoll
    /\ [][NextPoll]_vars
    /\ WF_vars(SleepEnds)
    /\ WF_vars(TimeoutFires)
    /\ WF_vars(ClockTick)

(* ---------------------- YaGptManager.get_answer ----------------------- *)
\* YaGptManager.base_url
BASE_URL == "https://llm.api.cloud.yandex.net/foundationModels/v1"

\* a URL as the HTTP client sees it: the address it is rooted at ("" when the
\* string holds a path only) and the path
Url(base, path) == [base |-> base, path |-> path]

\* get_answer line 205: 'self.base_url + "/completionAsync" if
\* self._async_mode else "/completion"'; the conditional expression binds
\* weaker than "+", so the base is joined to the first alternative only
CompletionUrl(base_url, mode) ==
    IF mode THEN Url(base_url, "/completionAsync") ELSE Url("", "/completion")

\* aiohttp sends a request to an absolute URL only: one without a host is
\* refused with InvalidURL, an aiohttp.ClientError
Sendable(url) == url.base # ""

\* prompts: a text with characters the cleaner removes (the unit digit), and
\* one made of such characters only
Prompts == {1, 11}

\* PromptManager.clean lines 22-32: the forbidden characters are removed;
\* 0 is the empty text
Clean(prompt) == prompt - (prompt % 10)

\* the completion endpoint's answers: the text and its completionTokens
Completions == {[text |-> 20, tokens |-> tokens] : tokens \in UnitCosts}

\* the task that runs get_answer
Caller == 1

\* the steps of get_answer, in the order of lines 197-213
AnswerSteps == <<"get_token", "tokenize", "user_update", "request", "response",
                 "assistant_update">>

\* the orchestrator in either mode and with any timeout; the context manager
\* in a small configuration, the session's key holding any of the start values
AnswerCtxInit ==
    /\ max_context_messages \in 0 .. MaxPrior
    /\ max_tokens \in SmallBudgets
    /\ cache \in [Keys(Sessions) -> StartValues]
    /\ fromEmpty = \A k \in Keys(Sessions) : cache[k] = None
    /\ CtxObsInit

YaGptManagerAnyMode ==
    /\ async_mode \in BOOLEAN
    /\ GetAnswerObsInit

InitAnswer == InitAuth /\ AnswerCtxInit /\ YaGptManagerInit /\ YaGptManagerAnyMode

\* an exception leaves get_answer at the given step
AnswerRaises(kind, step) ==
    /\ ga' = NoAnswer
    /\ result' = Some([kind |-> kind, step |-> step, session |-> ga.session,
                       text |-> ga.text, tokens |-> ga.tokens, url |-> ga.url,
                       stored |-> ga.stored])
    /\ UNCHANGED <<async_mode, answers, steps>>

\* get_answer line 197: the call starts and get_token is to be called
GetAnswerCall(prompt, s) ==
    /\ ga.pc = "idle"
    /\ answers < MaxAnswers
    /\ answers' = answers + 1
    /\ ga' = [NoAnswer EXCEPT !.pc = "get_token", !.session = s, !.text = prompt,
                              !.mark = calls]
    /\ steps' = <<>>
    /\ result' = None
    /\ UNCHANGED <<async_mode, authVars, authObs, ctxVars, ctxObs, pollVars>>

\* get_answer line 197 and _make_request line 115: get_token is called
CallsGetToken ==
    /\ ga.pc \in {"get_token", "request_token"}
    /\ calls = ga.mark
    /\ GetTokenCall(Caller)

\* the get_token call of the current step has ended
GetTokenEnded == calls > ga.mark /\ pc[Caller] = "idle"

\* line 197: get_token has returned, or raised YaGptException; with the
\* token, _prepare_context is entered
GetTokenEnds ==
    /\ ga.pc = "get_token"
    /\ GetTokenEnded
    /\ IF last[1].kind = "returned"
       THEN /\ ga' = [ga EXCEPT !.pc = "clean"]
            /\ steps' = Append(steps, "get_token")
            /\ UNCHANGED <<async_mode, answers, result>>
       ELSE AnswerRaises("YaGptException", "get_token")
    /\ UNCHANGED <<authVars, authObs, ctxVars, ctxObs, pollVars>>

\* _prepare_context lines 180-183: the prompt is cleaned; EmptyTextError
\* when nothing is left, otherwise the tokenizer's POST is sent
CleanPrompt ==
    /\ ga.pc = "clean"
    /\ IF Clean(ga.text) = 0
       THEN AnswerRaises("EmptyTextError", "clean")
       ELSE /\ ga' = [ga EXCEPT !.pc = "tokenize", !.text = Clean(ga.text)]
            /\ UNCHANGED <<async_mode, answers, steps, result>>
    /\ UNCHANGED <<authVars, authObs, ctxVars, ctxObs, pollVars>>

\* the update_context call that comes next is prepared: the counters of the
\* calls issued and of the lists written are noted
BeforeUpdate(g, step) ==
    [g EXCEPT !.pc = step, !.mark = updates, !.wrote = written[g.session]]

\* faulty variant: the request is made before the user entry is stored
TokenizeAnsweredSkippingUpdate(tokens) ==
    /\ ga.pc = "tokenize"
    /\ ga' = [ga EXCEPT !.pc = "request_token", !.tokens = tokens, !.mark = calls,
                        !.stored = Some(cache[ContextKey(ga.session)])]
    /\ steps' = Append(Append(steps, "tokenize"), "user_update")
    /\ UNCHANGED <<async_mode, answers, result>>
    /\ UNCHANGED <<authVars, authObs, ctxVars, ctxObs, pollVars>>

\* Tokenizer._make_request lines 29-35: the tokenizer answers 200 with the
\* tokens of the text; _prepare_context line 185 calls update_context next
TokenizeAnswered(tokens) ==
    /\ ga.pc = "tokenize"
    /\ ga' = BeforeUpdate([ga EXCEPT !.tokens = tokens], "user_update")
    /\ steps' = Append(steps, "tokenize")
    /\ UNCHANGED <<async_mode, answers, result>>
    /\ UNCHANGED <<authVars, authObs, ctxVars, ctxObs, pollVars>>

\* Tokenizer._make_request lines 29-31: a status other than 200 raises
\* TokenizationError; a connection failure leaves as aiohttp.ClientError
TokenizeFails(kind) ==
    /\ ga.pc = "tokenize"
    /\ kind \in {"TokenizationError", "ClientError"}
    /\ AnswerRaises(kind, "tokenize")
    /\ UNCHANGED <<authVars, authObs, ctxVars, ctxObs, pollVars>>

\* the entry update_context is called with: _prepare_context lines 185-187
\* (the user's cleaned prompt), get_answer lines 211-213 (the answer)
AnswerEntry(g) ==
    Entry(IF g.pc = "user_update" THEN "user" ELSE "assistant", g.text, g.tokens)

UpdatePending ==
    /\ ga.pc \in {"user_update", "assistant_update"}
    /\ updates = ga.mark

\* _prepare_context line 185 and get_answer line 211: update_context is
\* called and the cache answers its GET
CallsUpdateContext ==
    /\ UpdatePending
    /\ UpdateContextReadOf(Caller, ga.session, AnswerEntry(ga))

\* the same call, the cache failing its GET
CallsUpdateContextGetFails ==
    /\ UpdatePending
    /\ UpdateContextReadFails(Caller, ga.session)

\* the update_context call of the current step has ended
UpdateEnded == updates > ga.mark /\ uc[Caller].pc = "idle"

\* update_context has returned its list, or raised; after the user entry
\* _make_request is entered and calls get_token (line 115), after the
\* assistant entry the answer is returned (line 214)
UpdateContextEnds ==
    /\ ga.pc \in {"user_update", "assistant_update"}
    /\ UpdateEnded
    /\ IF written[ga.session] > ga.wrote
       THEN IF ga.pc = "user_update"
            THEN /\ ga' = [ga EXCEPT !.pc = "request_token", !.mark = calls,
                                     !.stored = Some(cache[ContextKey(ga.session)])]
                 /\ steps' = Append(steps, "user_update")
                 /\ UNCHANGED <<async_mode, answers, result>>
            ELSE /\ ga' = NoAnswer
                 /\ steps' = Append(steps, "assistant_update")
                 /\ result' = Some([kind |-> "returned", step |-> "return",
                                    session |-> ga.session, text |-> ga.text,
                                    tokens |-> ga.tokens, url |-> ga.url,
                                    stored |-> ga.stored])
                 /\ UNCHANGED <<async_mode, answers>>
       ELSE AnswerRaises(updateError[1].kind, ga.pc)
    /\ UNCHANGED <<authVars, authObs, ctxVars, ctxObs, pollVars>>

\* _make_request lines 115-120: get_token has returned and the POST is made
\* to the URL of line 205; aiohttp refuses a URL it cannot send to with a
\* ClientError, raised again as YaGptException (lines 135-136), as is a
\* failure of get_token
RequestSent ==
    /\ ga.pc = "request_token"
    /\ GetTokenEnded
    /\ LET url == CompletionUrl(BASE_URL, async_mode) IN
       IF last[1].kind # "returned"
       THEN AnswerRaises("YaGptException", "request")
       ELSE IF ~Sendable(url)
            THEN /\ ga' = NoAnswer
                 /\ result' = Some([kind |-> "YaGptException", step |-> "request",
                                    session |-> ga.session, text |-> ga.text,
                                    tokens |-> ga.tokens, url |-> Some(url),
                                    stored |-> ga.stored])
                 /\ UNCHANGED <<async_mode, answers, steps>>
            ELSE /\ ga' = [ga EXCEPT !.pc = "posting", !.url = Some(url)]
                 /\ steps' = Append(steps, "request")
                 /\ UNCHANGED <<async_mode, answers, result>>
    /\ UNCHANGED <<authVars, authObs, ctxVars, ctxObs, pollVars>>

\* the response is parsed (get_answer lines 209-210) and update_context is
\* called next with the answer
Parsed(g, response) ==
    BeforeUpdate([g EXCEPT !.text = response.text, !.tokens = response.tokens],
                 "assistant_update")

\* _make_request lines 120-131: the completion endpoint answers 200; in
\* asynchronous mode with the operation id, and _get_async_result is called,
\* otherwise with the response
PostAnswered(response) ==
    /\ ga.pc = "posting"
    /\ IF async_mode
       THEN /\ ga' = [ga EXCEPT !.pc = "polling"]
            /\ UNCHANGED steps
       ELSE /\ ga' = Parsed(ga, response)
            /\ steps' = Append(steps, "response")
    /\ UNCHANGED <<async_mode, answers, result>>
    /\ UNCHANGED <<authVars, authObs, ctxVars, ctxObs, pollVars>>

\* _make_request lines 121-123 and 133-136: a status other than 200 raises
\* InvalidResponse, asyncio.TimeoutError is raised again as
\* RequestTimeoutException and aiohttp.ClientError as YaGptException
PostFails(kind) ==
    /\ ga.pc = "posting"
    /\ kind \in {"InvalidResponse", "RequestTimeoutException", "YaGptException"}
    /\ AnswerRaises(kind, "request")
    /\ UNCHANGED <<authVars, authObs, ctxVars, ctxObs, pollVars>>

\* _make_request line 128: _get_async_result is called with the operation id
CallsGetAsyncResult(operation_id) ==
    /\ ga.pc = "polling"
    /\ GetAsyncResultCall(operation_id)

\* _make_request lines 128-136: _get_async_result has returned the response
\* or raised; the orchestrator is ready for the next operation
AsyncResultEnds(response) ==
    /\ ga.pc = "polling"
    /\ ar.pc = "ended"
    /\ IF outcome[1].kind = "response"
       THEN /\ ga' = Parsed(ga, response)
            /\ steps' = Append(steps, "response")
            /\ UNCHANGED <<async_mode, answers, result>>
       ELSE AnswerRaises(outcome[1].kind, "request")
    /\ ar' = NoResult
    /\ loop_time' = 0
    /\ polls' = 0
    /\ doneReported' = FALSE
    /\ pollFailed' = FALSE
    /\ outcome' = None
    /\ UNCHANGED <<async_timeout, authVars, authObs, ctxVars, ctxObs>>

\* one task calls get_answer again and again; the token endpoint, the
\* tokenizer, the cache and the completion endpoint answer or fail
NextAnswer ==
    \/ \E prompt \in Prompts, s \in Sessions : GetAnswerCall(prompt, s)
    \/ CallsGetToken
    \/ FetchTokenFail(Caller)
    \/ \E report \in ExpiresInReports : FetchTokenOk(Caller, report)
    \/ GetTokenEnds
    \/ CleanPrompt
    \/ \E tokens \in UnitCosts : TokenizeAnswered(tokens)
    \/ \E kind \in {"TokenizationError", "ClientError"} : TokenizeFails(kind)
    \/ CallsUpdateContext
    \/ CallsUpdateContextGetFails
    \/ UpdateContextWrite(Caller)
    \/ UpdateContextWriteFails(Caller)
    \/ UpdateContextEnds
    \/ RequestSent
    \/ \E response \in Completions : PostAnswered(response)
    \/ \E kind \in OutcomeKinds : PostFails(kind)
    \/ \E operation_id \in OperationIds : CallsGetAsyncResult(operation_id)
    \/ SleepEnds
    \/ \E done \in BOOLEAN : PollAnswered(done)
    \/ \E kind \in OutcomeKinds : PollFails(kind)
    \/ TimeoutFires
    \/ ClockTick
    \/ \E response \in Completions : AsyncResultEnds(response)

SpecAnswer == InitAnswer /\ [][NextAnswer]_vars

(* ----------------------- AuthManager: properties ---------------------- *)
\* the calls of the current batch have all ended
BatchDone ==
    /\ \E p \in Tasks : member[p] = "done"
    /\ \A p \in Tasks : member[p] # "active"
BatchSize == Cardinality({p \in Tasks : member[p] = "done"})

InWindow ==
    /\ token # None
    /\ token[1] <= Len(responses)
    /\ now < responses[token[1]].at + responses[token[1]].expires_in - REFRESH_MARGIN

\* C2: a get_token call issued while no other call is in progress sends no
\* POST when the cached token is inside its validity window and exactly one
\* POST otherwise (the first call, and the first call after expiry); no later
\* step of such a call sends another. So the calls made within one window
\* share the one POST that obtained the token.
C2_OnePostPerWindow ==
    [][ /\ (AllIdle /\ calls' # calls) =>
              invocations' = invocations + (IF InWindow THEN 0 ELSE 1)
        /\ (calls' = calls /\ lock_waiters = <<>>) => invocations' = invocations
      ]_vars

\* C2 witness: three sequential calls; the first obtained token 1 with a
\* non-empty window, one returned it from the cache, and the call after its
\* expiry obtained token 2
C2_Witness ==
    /\ AllIdle /\ calls = 3 /\ invocations = 2 /\ Len(responses) = 2
    /\ responses[1].ok /\ responses[1].expires_in > REFRESH_MARGIN
    /\ responses[2].ok /\ responses[2].at >= responses[1].expiry
    /\ last # None /\ last[1].tok = Some(2) /\ last[1].waited = 0

\* C3: a token returned by get_token is returned strictly before the instant
\* it was obtained + the expiresIn reported for it.
C3_ReturnedTokenNotExpired ==
    (last # None /\ last[1].kind = "returned") =>
        /\ last[1].tok # None
        /\ last[1].tok[1] <= Len(responses)
        /\ responses[last[1].tok[1]].ok
        /\ last[1].at < responses[last[1].tok[1]].at
                          + responses[last[1].tok[1]].expires_in

\* C3 witness: a token is returned from the cache after the instant it was
\* obtained, and one whose reported expiresIn is below the refresh margin is
\* returned by the call that obtained it
C3_Witness ==
    /\ last # None /\ last[1].kind = "returned" /\ last[1].tok # None
    /\ last[1].at > responses[last[1].tok[1]].at
    /\ \E i \in 1 .. Len(responses) :
          responses[i].ok /\ responses[i].expires_in < REFRESH_MARGIN

\* C4: at most one task has a POST to the token endpoint in flight.
C4_OneRefreshInFlight == Cardinality({p \in Tasks : pc[p] = "fetching"}) <= 1

\* C4 witness: a refresh is in flight while another task waits for the lock
C4_Witness ==
    /\ \E p \in Tasks : pc[p] = "fetching"
    /\ \E q \in Tasks : pc[q] = "waiting"

\* the latest call to end returned a token, had been issued while refresh
\* number k was in flight, and that refresh was answered 200
WaitedOnGoodRefresh(k) ==
    /\ last # None /\ last[1].kind = "returned" /\ last[1].tok # None
    /\ last[1].waited = k /\ k # 0 /\ k <= Len(responses)
    /\ responses[k].ok

\* C5 as stated: a caller that started waiting while a refresh was in flight
\* returns, once that refresh succeeded, the token of that refresh.
C5_ReturnsThatRefresh ==
    \A k \in 1 .. MaxCalls : WaitedOnGoodRefresh(k) => last[1].tok = Some(k)

\* C5 amended: such a caller never returns the token cached before the refresh
\* began; it returns the token of that refresh or of a later one, and a later
\* one only when the renewal threshold of that refresh's token has been reached.
C5_ReturnsThatRefreshOrLater ==
    \A k \in 1 .. MaxCalls : WaitedOnGoodRefresh(k) =>
        /\ last[1].tok # last[1].pre
        /\ last[1].tok[1] >= k
        /\ last[1].tok[1] > k => responses[k].expiry <= now

\* C5 witness: a caller that waited on a refresh while an older token was
\* cached returned the token of that refresh
C5_Witness ==
    \E k \in 1 .. MaxCalls :
        /\ WaitedOnGoodRefresh(k)
        /\ last[1].tok = Some(k)
        /\ last[1].pre # None

\* the endpoint's answer to the POST in flight arrives in this step, and it
\* is a failure
FailureArrives ==
    /\ Len(responses') = Len(responses) + 1
    /\ ~responses'[Len(responses')].ok

\* C14: a get_token call sends one POST when it starts a refresh and none
\* after; when the endpoint answers with a failure, the call ends raising the
\* error in that step, releasing the lock, and token and expiry are as they
\* were when the POST was sent.
C14_FailureEndsCallUnchanged ==
    [][ \A p \in Tasks :
          /\ (pc[p] # "fetching" /\ pc'[p] = "fetching") =>
                 invocations' = invocations + 1
          /\ pc[p] = "fetching" =>
                 /\ invocations' = invocations
                 /\ pc'[p] = "fetching" =>
                        (token' = token /\ token_expiry' = token_expiry)
                 /\ FailureArrives =>
                        /\ pc'[p] = "idle"
                        /\ last' = Ended(p, "raised", None, waitedOn[p], preTok[p])
                        /\ ~lock_locked'
                        /\ token' = token /\ token_expiry' = token_expiry
      ]_vars

\* C14 witness: a refresh of an expired cached token has failed; the call
\* raised and the token is still cached, one POST sent per answer
C14_Witness ==
    /\ last # None /\ last[1].kind = "raised"
    /\ token # None /\ token_expiry # None
    /\ responses # <<>> /\ ~responses[Len(responses)].ok
    /\ invocations = Len(responses)

\* C15: in every state a task can observe, token and expiry are both absent
\* or both present, and a present expiry is the one computed for the present
\* token: the instant it was obtained + its expiresIn - 600.
C15_TokenAndExpiryTogether ==
    /\ (token = None) <=> (token_expiry = None)
    /\ token # None =>
          /\ token[1] \in 1 .. Len(responses)
          /\ responses[token[1]].ok
          /\ token_expiry = Some(responses[token[1]].at
                                 + responses[token[1]].expires_in - REFRESH_MARGIN)

\* C15 witness: a refresh succeeded, the next failed, a third succeeded: the
\* third token is cached with its own expiry, which differs from the first
\* token's
C15_Witness ==
    /\ Len(responses) = 3
    /\ responses[1].ok /\ ~responses[2].ok /\ responses[3].ok
    /\ token = Some(3) /\ token_expiry = Some(responses[3].expiry)
    /\ responses[3].expiry # responses[1].expiry

\* a refresh has failed
FailedBefore == \E i \in 1 .. Len(responses) : ~responses[i].ok

\* C18 as stated: after a get_token call has failed, every call that ends,
\* of a caller that waited for the lock or called later, has made its own
\* refresh attempt.
C18_EveryCallAfterFailureRefreshes ==
    [][ (FailedBefore /\ last' # last) => pc[last'[1].task] = "fetching" ]_vars

\* no call is in progress: the lock is free and nobody waits for it
Quiet == AllIdle /\ ~lock_locked /\ lock_waiters = <<>>

\* C18 amended: the lock is released in the step in which a call ends,
\* failed refresh included, and again and again no call is in progress: a
\* held lock is released, every caller waiting for it acquires it and every
\* call ends. After a failed refresh no valid token is cached, and a caller
\* that acquires the lock makes its own refresh attempt exactly when no
\* valid token is cached, so not after a later refresh has succeeded.
C18_LockReleasedCallersProceed ==
    /\ [][ /\ last' # last => ~lock_locked'
           /\ FailureArrives =>
                  (~lock_locked' /\ NeedsRefresh(token', token_expiry', now'))
           /\ \A p \in Tasks :
                  (pc[p] = "waiting" /\ pc'[p] # "waiting") =>
                      (pc'[p] = "fetching" <=> NeedsRefresh(token, token_expiry, now))
         ]_vars
    /\ []<>Quiet

\* C18 witness: a task that called while a refresh was in flight has
\* acquired the lock after that refresh failed and has its own in flight
C18_Witness ==
    \E p \in Tasks :
        /\ pc[p] = "fetching"
        /\ waitedOn[p] \in 1 .. Len(responses)
        /\ ~responses[waitedOn[p]].ok

\* the renewal threshold of the cached token: the instant it was obtained
\* + the expiresIn reported with it, 43200 when none was, - 600
Threshold ==
    LET r == responses[token[1]] IN
        r.at + (IF r.report = None THEN 43200 ELSE r.report[1]) - 600

\* a task runs the check of get_token in this step: a waiter is handed the
\* lock, or a call finds the lock free
ChecksCache ==
    \/ \E p \in Tasks : pc[p] = "waiting" /\ pc'[p] # "waiting"
    \/ calls' # calls /\ ~lock_locked /\ lock_waiters = <<>>

\* C20: the expiry stored with a token is its renewal threshold t + e - 600;
\* a get_token call that runs its check while a token is cached returns that
\* token and sends no POST when the clock is strictly before the threshold,
\* and sends a POST when the clock is at or after it.
C20_CachedUntilThreshold ==
    /\ [](token # None => token_expiry = Some(Threshold))
    /\ [][ (ChecksCache /\ token # None) =>
              IF now < Threshold
              THEN /\ invocations' = invocations
                   /\ token' = token
                   /\ last' # None /\ last'[1].kind = "returned"
                   /\ last'[1].tok = token /\ last'[1].at = now
              ELSE /\ invocations' = invocations + 1
                   /\ \E p \in Tasks : pc[p] # "fetching" /\ pc'[p] = "fetching"
         ]_vars

\* C20 witness: a token reported with expiresIn 900 was renewed by the call
\* made exactly at its threshold, 300 seconds after it was obtained; the new
\* token, reported without expiresIn, was returned from the cache later on
C20_Witness ==
    /\ calls = 3 /\ invocations = 2 /\ Len(responses) = 2
    /\ responses[1].ok /\ responses[1].report = Some(900)
    /\ responses[2].ok /\ responses[2].report = None
    /\ responses[2].at = responses[1].at + 300
    /\ token = Some(2) /\ token_expiry = Some(responses[2].at + 43200 - 600)
    /\ last # None /\ last[1].kind = "returned" /\ last[1].tok = Some(2)
    /\ last[1].at > responses[2].at

(* --------------------- ContextManager: properties --------------------- *)
\* task t has its list computed in this step, or written in this step
ReadStep(t) == uc[t].pc = "idle" /\ uc'[t].pc = "writing"
WriteStep(t) == uc[t].pc = "writing" /\ uc'[t].pc = "idle"

\* the context stored for session s, as get_context reads it
Stored(s) == ContextOrEmpty(GetContext(cache[ContextKey(s)]))
Suffix(seq, n) == SubSeq(seq, Len(seq) - n + 1, Len(seq))
Min(a, b) == IF a <= b THEN a ELSE b

\* C6: for every prior context, new entry, max message count and budget,
\* update_context goes on to store, and stores, a sequence whose last
\* element is the new entry.
C6_StoresNewEntryLast ==
    [][ /\ updates' # updates =>
              \E t \in CtxTasks :
                  /\ ReadStep(t)
                  /\ uc'[t].list # <<>>
                  /\ uc'[t].list[Len(uc'[t].list)] = uc'[t].new
        /\ \A t \in CtxTasks : WriteStep(t) =>
              LET read == GetContext(cache'[ContextKey(uc[t].session)]) IN
                  /\ read # None /\ read[1] # <<>>
                  /\ read[1][Len(read[1])] = uc[t].new
      ]_vars

\* C7: the entries kept from the prior context are fewer than the max message
\* count when the new entry is appended, so the context stored by an update
\* holds at least one and at most max-message-count entries.
C7_CountBound ==
    /\ \A t \in CtxTasks : uc[t].pc = "writing" =>
          /\ Len(uc[t].list) - 1 < max_context_messages
          /\ Len(uc[t].list) >= 1
    /\ \A s \in Sessions : written[s] > 0 =>
          /\ Len(Stored(s)) >= 1
          /\ Len(Stored(s)) <= max_context_messages

\* C7 witness: two updates wrote, and the stored context is full, with more
\* than one entry
C7_Witness ==
    \E s \in Sessions :
        /\ written[s] >= 2
        /\ max_context_messages >= 2
        /\ Len(Stored(s)) = max_context_messages

CountTrimmed(prior) == Suffix(prior, Min(Len(prior), max_context_messages - 1))
\* the prior entries kept together with the new one stay under the budget
Fits(kept, new) == SumTokens(kept) + new.tokens < max_tokens

Contains(list, entry) == \E i \in 1 .. Len(list) : list[i] = entry

\* C16: when two update_context calls on one session have both read before
\* either writes, the one that writes stores its own list, which lacks the
\* other's new entry, and the list the other is still to write lacks the
\* writer's new entry: whichever writes last loses the other's entry.
C16_SecondWriteLosesFirst ==
    [][ \A t, u \in CtxTasks :
          (/\ t # u /\ WriteStep(t)
           /\ uc[u].pc = "writing" /\ uc[u].session = uc[t].session)
          => /\ GetContext(cache'[ContextKey(uc[t].session)]) = Some(uc[t].list)
             /\ ~Contains(uc[t].list, uc[u].new)
             /\ ~Contains(uc[u].list, uc[t].new)
      ]_vars

\* C16 witness: a lost update. Two overlapping updates of an empty session,
\* both of entries that cost nothing, with room for two messages, have both
\* written, and the stored context holds one entry
C16_Witness ==
    \E s \in Sessions :
        /\ fromEmpty /\ overlapped /\ ~budgetEvicted
        /\ max_context_messages >= 2
        /\ updates = 2 /\ written[s] = 2 /\ ~UpdateInProgress
        /\ Len(newest[s]) = 2 /\ newest[s][1].tokens = 0 /\ newest[s][2].tokens = 0
        /\ Stored(s) = <<newest[s][1]>>

\* C19: the list an update_context call builds is a contiguous suffix of
\* the context stored when it read, with every entry as stored, followed by
\* the new entry.
C19_SuffixThenNewEntry ==
    [][ \A t \in CtxTasks : ReadStep(t) =>
          LET prior == Stored(uc'[t].session) IN
              \E n \in 0 .. Len(prior) :
                  uc'[t].list = Suffix(prior, n) \o <<uc'[t].new>>
      ]_vars

\* C19 witness: of a stored context of two entries the older was removed:
\* the list to write is the newer one followed by the new entry
C19_Witness ==
    \E t \in CtxTasks :
        /\ uc[t].pc = "writing"
        /\ Len(Stored(uc[t].session)) = 2
        /\ uc[t].list = <<Stored(uc[t].session)[2], uc[t].new>>

(* ------------------ ContextManager: reads and sessions ---------------- *)
\* a get_context call on session s returns in this step
GetStep(s) == lastGot' # lastGot /\ lastGot' # None /\ lastGot'[1].session = s

\* C11 as stated: a get_context call that follows an update_context of the
\* same session, with no other update of it in between, returns exactly the
\* sequence that update returned.
C11_RoundTrip ==
    [][ \A s \in AllSessions : (GetStep(s) /\ returned[s] # None) =>
            lastGot'[1].value = returned[s]
      ]_vars

\* C11 amended: such a get_context call returns exactly the sequence the
\* update returned as long as the key, stored with a time to live of 3600
\* seconds, has not expired since; after its expiry it returns None.
C11_RoundTripUntilExpiry ==
    [][ \A s \in AllSessions : (GetStep(s) /\ returned[s] # None) =>
            lastGot'[1].value = IF expired[s] THEN None ELSE returned[s]
      ]_vars

\* C11 witness: an empty session updated once with an entry under the budget
\* is read back as that one entry
C11_Witness ==
    \E s \in AllSessions :
        /\ fromEmpty /\ written[s] = 1 /\ ~expired[s]
        /\ returned[s] # None /\ Len(returned[s][1]) = 1
        /\ returned[s][1][1].tokens < max_tokens
        /\ lastGot = Some([session |-> s, value |-> returned[s], alone |-> returned[s]])

\* C12: while the key of a session holds a text that is not JSON, a
\* get_context call on it returns None and leaves the cache as it is, and
\* an update_context call on it builds the list of the new entry alone, which
\* is what it then stores.
C12_GarbageReadsAsAbsent ==
    [][ /\ \A s \in AllSessions : cache[ContextKey(s)] = Some(Garbage) =>
              /\ GetStep(s) => (lastGot'[1].value = None /\ cache' = cache)
              /\ \A t \in CtxTasks : (ReadStep(t) /\ uc'[t].session = s) =>
                     (uc'[t].list = <<uc'[t].new>> /\ cache' = cache)
        /\ \A t \in CtxTasks : (WriteStep(t) /\ uc[t].list = <<uc[t].new>>) =>
              cache'[ContextKey(uc[t].session)] = Some(Dumps(<<uc[t].new>>))
      ]_vars

\* C12 witness: the key holds a text that is not JSON, get_context has
\* returned None for it and an update_context call on it is about to store
\* its new entry alone
C12_Witness ==
    \E t \in CtxTasks :
        /\ uc[t].pc = "writing"
        /\ cache[ContextKey(uc[t].session)] = Some(Garbage)
        /\ uc[t].list = <<uc[t].new>>
        /\ lastGot = Some([session |-> uc[t].session, value |-> None, alone |-> None])

(* --------------- YaGptManager._get_async_result: properties ----------- *)
\* the call has ended and no status GET was ever answered with done: true
EndedNeverDone == ar.pc = "ended" /\ ~doneReported

\* the call ended raising RequestTimeoutException, its message holding the
\* operation id
TimedOutWithId ==
    outcome = Some([kind |-> "RequestTimeoutException",
                    carried |-> Some(TimeoutMessage(ar.operation_id))])

\* C13 as stated: an asynchronous completion whose operation never reports
\* done: true fails with the timeout error that carries the operation id.
C13_NeverDoneTimesOut == EndedNeverDone => TimedOutWithId

\* C13 amended: a call of _get_async_result always ends. When no status GET
\* reports done: true it never returns a response and is answered at most
\* async_timeout times; it ends with the timeout error carrying the operation
\* id when every status GET was answered with status 200, and with
\* InvalidResponse or YaGptException, at once, when a status GET was answered
\* with another status or failed to connect.
C13_EndsTimedOutOrPollFailed ==
    /\ [](EndedNeverDone =>
            /\ outcome # None /\ outcome[1].kind # "response"
            /\ ~pollFailed => TimedOutWithId
            /\ pollFailed => outcome[1].kind \in {"InvalidResponse", "YaGptException"})
    /\ [](~doneReported => polls <= async_timeout)
    /\ (PollInProgress ~> ar.pc = "ended")

\* C13 witness: two status GETs were answered with done: false and the call
\* ended with the timeout error
C13_Witness == EndedNeverDone /\ polls >= 2 /\ ~pollFailed /\ TimedOutWithId

\* C17: the value under each session's key, the list each update_context
\* call is to write and the value each get_context call returned are what
\* they would be had the calls on the other sessions not run; and a step
\* changes a session's key only by a write of an update_context call on that
\* session or by the expiry of that key.
C17_SessionsIndependent ==
    /\ [](/\ \A s \in AllSessions : cache[ContextKey(s)] = alone[s]
          /\ \A t \in CtxTasks : uc[t].pc = "writing" => uc[t].list = aloneList[t]
          /\ lastGot # None => lastGot[1].value = lastGot[1].alone)
    /\ [][ \A s \in AllSessions :
              cache'[ContextKey(s)] # cache[ContextKey(s)] =>
                  \/ \E t \in CtxTasks : WriteStep(t) /\ uc[t].session = s
                  \/ cache'[ContextKey(s)] = None
          ]_vars

\* C17 witness: update_context calls on the two sessions are both between
\* their read and their write, one of the sessions has been written before
\* and a get_context call has returned a context
C17_Witness ==
    \E t, u \in CtxTasks :
        /\ uc[t].pc = "writing" /\ uc[u].pc = "writing"
        /\ uc[t].session # uc[u].session
        /\ written[uc[u].session] >= 1
        /\ lastGot # None /\ lastGot[1].value # None

(* ------------------ YaGptManager.get_answer: properties --------------- *)
IsPrefix(a, b) == Len(a) <= Len(b) /\ a = SubSeq(b, 1, Len(a))

LastOf(list) == list[Len(list)]

\* the session's stored context ends with the given entry
EndsWith(s, entry) == Stored(s) # <<>> /\ LastOf(Stored(s)) = entry

\* the get_answer call is past its user update: get_token is called for the
\* request, the POST is in flight or the operation is polled
AtRequest == ga.pc \in {"request_token", "posting", "polling"}

\* the latest get_answer call ended with its completion request failing
RequestFailed == result # None /\ result[1].step = "request"

\* C21: a get_answer call completes its steps in the order get_token,
\* tokenize, update_context with the user entry, completion request,
\* response, update_context with the assistant entry. While the request is
\* being made the session's stored context ends with the user entry; a step
\* stores a context ending with an assistant entry only after the response
\* has been received and parsed; and once the completion request has failed
\* or timed out, the stored context is the one the user update wrote, ending
\* with the user entry.
C21_StepsInOrder ==
    /\ [](/\ IsPrefix(steps, AnswerSteps)
          /\ AtRequest => /\ ga.stored = Some(cache[ContextKey(ga.session)])
                          /\ EndsWith(ga.session, Entry("user", ga.text, ga.tokens))
          /\ RequestFailed =>
                /\ result[1].kind # "returned"
                /\ result[1].stored = Some(cache[ContextKey(result[1].session)])
                /\ EndsWith(result[1].session,
                            Entry("user", result[1].text, result[1].tokens)))
    /\ [][ \A s \in Sessions :
              (/\ cache'[ContextKey(s)] # cache[ContextKey(s)]
               /\ Stored(s)' # <<>>
               /\ LastOf(Stored(s)').role = "assistant")
              => /\ ga.pc = "assistant_update"
                 /\ steps = SubSeq(AnswerSteps, 1, 5)
          ]_vars

\* C21 witness: in asynchronous mode the request was sent, the operation was
\* polled until the timeout, and get_answer ended with the timeout error
\* after its user update had replaced an earlier context
C21_Witness ==
    /\ RequestFailed
    /\ result[1].kind = "RequestTimeoutException"
    /\ steps = SubSeq(AnswerSteps, 1, 4)
    /\ Len(Stored(result[1].session)) >= 2

\* the URL the completion request of the current or the latest get_answer
\* call was made with: None before the request is made
RequestUrl ==
    IF ga.url # None THEN ga.url
    ELSE IF result # None THEN result[1].url ELSE None

\* C22 as stated: in both modes the completion request is made to a URL
\* formed from the base URL: base_url + "/completionAsync" in asynchronous
\* mode and base_url + "/completion" otherwise.
C22_UrlFromBase ==
    RequestUrl # None =>
        RequestUrl[1] = Url(BASE_URL, IF async_mode THEN "/completionAsync"
                                      ELSE "/completion")

(* ------------------ AuthManager: construction and key ----------------- *)
\* a required field of the descriptor is absent or its algorithm is not an
\* accepted one
Rejected(key) ==
    \/ \E field \in RequiredFields : key[field] = None
    \/ key["key_algorithm"][1] \notin AcceptedAlgorithms

\* the manager was constructed and its private key does not decode
KeyUndecodable ==
    /\ am.state = "constructed"
    /\ LoadPemPrivateKey(am.private_key[1]).raised # None

\* a step ends a get_token call: a task in a call becomes idle, or a call is
\* issued and ends without suspension
CallEndStep ==
    \/ \E p \in Tasks : pc[p] # "idle" /\ pc'[p] = "idle"
    \/ calls' > calls /\ pc' = pc

\* C23: construction raises exactly when a required field of the descriptor
\* is absent or the key algorithm is not an accepted one, whether or not the
\* private key decodes. With a manager whose key does not decode, every
\* get_token call ends raising with no POST sent to the token endpoint, token
\* and expiry stay None, no task is ever left holding the lock, and the step
\* that ends a call leaves the lock free.
C23_ValidatedAtConstructionDecodedAtUse ==
    /\ [](/\ am.state # "new" =>
                (am.state = "raised" <=> Rejected(service_account_key))
          /\ am.state # "constructed" => calls = 0
          /\ KeyUndecodable =>
                /\ invocations = 0 /\ responses = <<>>
                /\ token = None /\ token_expiry = None
                /\ ~lock_locked /\ lock_waiters = <<>>
                /\ \A p \in Tasks : pc[p] = "idle"
                /\ last # None => last[1].kind = "raised"
                /\ calls > 0 => last # None)
    /\ [][ CallEndStep => ~lock_locked' ]_vars

\* C23 witness: a manager was constructed from a descriptor whose private key
\* is not PEM, and two get_token calls, by different tasks, have ended
\* raising, the second taking the lock the first released
C23_Witness ==
    /\ KeyUndecodable
    /\ service_account_key["private_key"] = Some("not PEM")
    /\ calls >= 2
    /\ last # None /\ last[1].kind = "raised" /\ last[1].task = 2
    /\ ~lock_locked

(* ------------------ ContextManager: cache failures -------------------- *)
\* a step in which the cache fails the GET, or the SET, of a call of t
CacheFailStep(t, op) ==
    /\ cacheFailed'.n = cacheFailed.n + 1
    /\ cacheFailed'.op = op
    /\ cacheFailed'.task = t

\* C24: when the cache fails an operation of an update_context call, the call
\* ends in that step raising RedisConnectionError, returns nothing and leaves
\* the cache as it was. When the GET fails no SET is pending or sent; when
\* the SET fails the value under the session's key, no other update having
\* run meanwhile, is what the call's GET had read.
C24_CacheFailurePropagates ==
    [][ \A t \in CtxTasks :
          /\ CacheFailStep(t, "get") =>
                /\ updates' = updates + 1
                /\ updateError' # None
                /\ updateError'[1].kind = "RedisConnectionError"
                /\ updateError'[1].task = t /\ updateError'[1].at = updates'
                /\ uc[t].pc = "idle" /\ uc'[t].pc = "idle"
                /\ cache' = cache
                /\ written' = written /\ returned' = returned
          /\ CacheFailStep(t, "set") =>
                /\ updateError' = UpdateRaised(t, uc[t].session,
                                               "RedisConnectionError", "set", updates)
                /\ uc[t].pc = "writing" /\ uc'[t].pc = "idle"
                /\ cache' = cache
                /\ written' = written /\ returned' = returned /\ updates' = updates
                /\ ~overlapped => cache'[ContextKey(uc[t].session)] = uc[t].before
      ]_vars

\* C24 witness: an update has written the session's context, the GET of a
\* later call has failed, and the SET of the latest call has failed, leaving
\* the context the first update wrote
C24_Witness ==
    /\ updateError # None
    /\ updateError[1].kind = "RedisConnectionError" /\ updateError[1].stage = "set"
    /\ updates = 3
    /\ cacheFailed.n = 2
    /\ written["s1"] = 1
    /\ ~overlapped
    /\ returned["s1"] # None
    /\ cache[ContextKey("s1")] = Some(Dumps(returned["s1"][1]))

====
